---- MODULE Spec2Model ----
(***************************************************************************)
(* Model of main.py: enumeration of the tic-tac-toe game states up to      *)
(* board symmetry, as a level-by-level graph of symmetry groups.           *)
(*                                                                         *)
(* A State (board) is a triple of triples over {0, 1, 2}.  Python indexes  *)
(* rows and columns 0..2, the model 1..3.  A Node object is identified by  *)
(* its GroupId: `nodes` holds, per GroupId, the record of the one Node     *)
(* made for it, and a reference to a Node is the GroupId.                  *)
(***************************************************************************)
EXTENDS Integers, Sequences, FiniteSets, TLC

VARIABLES
    states,     \* dict State -> GroupId, curried by row     (main.py:155)
    groups,     \* dict GroupId -> SymmetryGroup             (main.py:157)
    nodes,      \* dict GroupId -> Node                      (main.py:159)
    gid,        \* incremental counter of GroupIds           (main.py:161)
    q,          \* deque of Nodes, left end first            (main.py:181)
    step,       \* loop variable of the BFS loop             (main.py:209)
    todo,       \* iterations left of `for _ in range(len(q))` (main.py:211)
    pc,         \* position of the script / of the called function
    output,     \* the (step, len(q)) lines printed          (main.py:210)
    graph_size, \* the number printed at the end, 0 before   (main.py:214)
    level,      \* history: GroupId -> step at whose start its Node is queued
    expanded,   \* history: GroupIds in the order their Nodes were popped
    call_st,    \* argument of a direct call of a function
    call_gid,   \* gid argument of a direct call of add_symmetry_group
    call_ret    \* what the direct call returned

vars == <<states, groups, nodes, gid, q, step, todo, pc, output, graph_size,
          level, expanded, call_st, call_gid, call_ret>>

Range(f) == {f[x] : x \in DOMAIN f}

\* cell values: 0 empty, 1 X, 2 O
Cells == {0, 1, 2}

Triplets == {<<a, b, c>> : a \in Cells, b \in Cells, c \in Cells}

\* every value of type State
AllStates == {<<r1, r2, r3>> : r1 \in Triplets, r2 \in Triplets, r3 \in Triplets}

empty_board_state == <<<<0, 0, 0>>, <<0, 0, 0>>, <<0, 0, 0>>>>

\* a loop that stops after two levels
NumSteps_short == 11 - 9

\* range(11) of the BFS loop
NumSteps == 11

----------------------------------------------------------------------------
(* get_symmetries *)

\* the mirror forgotten
get_vertical_mirror_same(brd) == brd

get_vertical_mirror(brd) == <<brd[3], brd[2], brd[1]>>

\* only the half turn
get_rotations_half(brd) ==
    LET rot2 == <<<<brd[3][3], brd[3][2], brd[3][1]>>,
                  <<brd[2][3], brd[2][2], brd[2][1]>>,
                  <<brd[1][3], brd[1][2], brd[1][1]>>>>
    IN  <<brd, rot2>>

\* rot3 a copy of rot1
get_rotations_rot3(brd) ==
    LET rot1 == <<<<brd[3][1], brd[2][1], brd[1][1]>>,
                  <<brd[3][2], brd[2][2], brd[1][2]>>,
                  <<brd[3][3], brd[2][3], brd[1][3]>>>>
        rot2 == <<<<brd[3][3], brd[3][2], brd[3][1]>>,
                  <<brd[2][3], brd[2][2], brd[2][1]>>,
                  <<brd[1][3], brd[1][2], brd[1][1]>>>>
    IN  <<brd, rot1, rot2, rot1>>

get_rotations(brd) ==
    LET a == brd[1][1]  b == brd[1][2]  c == brd[1][3]
        d == brd[2][1]  e == brd[2][2]  f == brd[2][3]
        g == brd[3][1]  h == brd[3][2]  i == brd[3][3]
        rot1 == <<<<g, d, a>>,
                  <<h, e, b>>,
                  <<i, f, c>>>>
        rot2 == <<<<i, h, g>>,
                  <<f, e, d>>,
                  <<c, b, a>>>>
        rot3 == <<<<c, f, i>>,
                  <<b, e, h>>,
                  <<a, d, g>>>>
    IN  <<brd, rot1, rot2, rot3>>

\* the rotations of the mirror listed first
apply_all_symmetry_operations_mirror_first(brd) ==
    get_rotations(get_vertical_mirror(brd)) \o get_rotations(brd)

apply_all_symmetry_operations(brd) ==
    get_rotations(brd) \o get_rotations(get_vertical_mirror(brd))

\* list(dict.fromkeys(xs)): the first occurrence of each element, in order
RECURSIVE dict_fromkeys(_, _)
dict_fromkeys(xs, acc) ==
    IF xs = <<>> THEN acc
    ELSE dict_fromkeys(Tail(xs),
                       IF Head(xs) \in Range(acc) THEN acc
                       ELSE Append(acc, Head(xs)))

\* duplicates kept
duplicates_removed_kept(xs) == xs

duplicates_removed(xs) == dict_fromkeys(xs, <<>>)

get_symmetries(brd) == duplicates_removed(apply_all_symmetry_operations(brd))

----------------------------------------------------------------------------
(* is_end, make_move, get_next_states_raw *)

\* the `!= 0` forgotten: three empty cells count as a line
are_same_zero(triplet) ==
    /\ triplet[1] = triplet[2]
    /\ triplet[2] = triplet[3]

are_same(triplet) ==
    /\ triplet[1] = triplet[2]
    /\ triplet[2] = triplet[3]
    /\ triplet[3] # 0

\* the second diagonal left out
lines_no_diag2(brd) ==
    LET horizontals == [ix \in 1..3 |-> <<brd[ix][1], brd[ix][2], brd[ix][3]>>]
        verticals   == [ix \in 1..3 |-> <<brd[1][ix], brd[2][ix], brd[3][ix]>>]
        diag1       == <<brd[1][1], brd[2][2], brd[3][3]>>
    IN  horizontals \o verticals \o <<diag1>>

lines(brd) ==
    LET horizontals == [ix \in 1..3 |-> <<brd[ix][1], brd[ix][2], brd[ix][3]>>]
        verticals   == [ix \in 1..3 |-> <<brd[1][ix], brd[2][ix], brd[3][ix]>>]
        diag1       == <<brd[1][1], brd[2][2], brd[3][3]>>
        diag2       == <<brd[3][1], brd[2][2], brd[1][3]>>
    IN  horizontals \o verticals \o <<diag1, diag2>>

is_end(brd) == \E k \in DOMAIN lines(brd) : are_same(lines(brd)[k])

\* the changed copy dropped, the given board returned
make_move_unchanged(brd, row, col, val) == brd

make_move(brd, row, col, val) == [brd EXCEPT ![row][col] = val]

\* the (row, col) pairs in the order of the two nested loops
row_col_order == [k \in 1..9 |-> <<((k - 1) \div 3) + 1, ((k - 1) % 3) + 1>>]

\* X placed at every step
new_val_always_x(stp) == 1

\* the `+ 1` forgotten
new_val_zero(stp) == stp % 2

new_val(stp) == (stp % 2) + 1

get_next_states_raw(brd, stp) ==
    IF is_end(brd) THEN <<>>
    ELSE LET free == SelectSeq(row_col_order, LAMBDA rc : brd[rc[1]][rc[2]] = 0)
         IN  [k \in 1..Len(free) |->
                 make_move(brd, free[k][1], free[k][2], new_val(stp))]

----------------------------------------------------------------------------
(* the registry and the graph builder of __main__ *)

\* A dict keyed by State is held curried, row by row: d[row1][row2][row3].
\* The three operators below are `st in d`, `d[st]` and `d[st] = g`.
dict_has(d, brd) ==
    /\ brd[1] \in DOMAIN d
    /\ brd[2] \in DOMAIN d[brd[1]]
    /\ brd[3] \in DOMAIN d[brd[1]][brd[2]]

dict_get(d, brd) == d[brd[1]][brd[2]][brd[3]]

dict_set(d, brd, g) ==
    LET d1 == IF brd[1] \in DOMAIN d THEN d[brd[1]] ELSE <<>>
        d2 == IF brd[2] \in DOMAIN d1 THEN d1[brd[2]] ELSE <<>>
    IN  (brd[1] :> ((brd[2] :> ((brd[3] :> g) @@ d2)) @@ d1)) @@ d

\* d.update({st: g for st in xs})
RECURSIVE dict_update(_, _, _)
dict_update(d, xs, g) ==
    IF xs = <<>> THEN d
    ELSE dict_update(dict_set(d, Head(xs), g), Tail(xs), g)

\* Node(val): successors holds the GroupIds of the successor Nodes
Node(val) == [val |-> val, successors |-> <<>>]

\* only st itself, not its whole group, stored in `states`
add_symmetry_group_single(sts, grps, brd, g) ==
    IF g \in DOMAIN grps
    THEN [states |-> sts, groups |-> grps, raised |-> TRUE]
    ELSE [states |-> dict_set(sts, brd, g),
          groups |-> (g :> get_symmetries(brd)) @@ grps,
          raised |-> FALSE]

\* add_symmetry_group(st, gid) on the dicts `states` and `groups`;
\* raised: the assert failed, nothing was written
add_symmetry_group(sts, grps, brd, g) ==
    IF g \in DOMAIN grps
    THEN [states |-> sts, groups |-> grps, raised |-> TRUE]
    ELSE LET symmetry_group == get_symmetries(brd)
         IN  [states |-> dict_update(sts, symmetry_group, g),
              groups |-> (g :> symmetry_group) @@ grps,
              raised |-> FALSE]

\* the membership test always negative
is_successor_never(gid_old, successors) == FALSE

\* the membership test always positive: no edge to an existing group
is_successor_always(gid_old, successors) == TRUE

\* gid_old in [suc.val for suc in nd.successors]
is_successor(gid_old, successors) == gid_old \in Range(successors)

\* the new Node put at the right end, where q.pop() takes from
appendleft_right(dq, x) == Append(dq, x)

\* q.appendleft(new_nd)
appendleft(dq, x) == <<x>> \o dq

\* the element q.pop() returns, and the deque it leaves
pop_value(dq) == dq[Len(dq)]

pop_rest(dq) == SubSeq(dq, 1, Len(dq) - 1)

\* `gid += 1` forgotten
visit_next_state_same_gid(w, nd, nxt_st, stp) ==
    IF dict_has(w.states, nxt_st)
    THEN LET gid_old == dict_get(w.states, nxt_st)
         IN  IF gid_old \notin Range(w.nodes[nd].successors)
             THEN [w EXCEPT !.nodes[nd].successors = Append(@, gid_old)]
             ELSE w
    ELSE LET r == add_symmetry_group(w.states, w.groups, nxt_st, w.gid)
         IN  IF r.raised
             THEN [w EXCEPT !.raised = TRUE]
             ELSE [w EXCEPT
                     !.states = r.states,
                     !.groups = r.groups,
                     !.nodes  = (w.gid :> Node(w.gid))
                                @@ [w.nodes EXCEPT ![nd].successors = Append(@, w.gid)],
                     !.q      = <<w.gid>> \o w.q,
                     !.level  = (w.gid :> stp + 1) @@ w.level]

\* one iteration of `for nxt_st in next_states` for the Node nd;
\* w holds the globals the function reads and writes
visit_next_state(w, nd, nxt_st, stp) ==
    IF dict_has(w.states, nxt_st)
    THEN LET gid_old == dict_get(w.states, nxt_st)
         IN  IF ~is_successor(gid_old, w.nodes[nd].successors)
             THEN [w EXCEPT !.nodes[nd].successors = Append(@, gid_old)]
             ELSE w
    ELSE LET r == add_symmetry_group(w.states, w.groups, nxt_st, w.gid)
         IN  IF r.raised
             THEN [w EXCEPT !.raised = TRUE]
             ELSE [w EXCEPT
                     !.states = r.states,
                     !.groups = r.groups,
                     !.nodes  = (w.gid :> Node(w.gid))
                                @@ [w.nodes EXCEPT ![nd].successors = Append(@, w.gid)],
                     !.q      = appendleft(w.q, w.gid),
                     !.level  = (w.gid :> stp + 1) @@ w.level,
                     !.gid    = w.gid + 1]

RECURSIVE for_next_states(_, _, _, _, _)
for_next_states(w, nd, next_states, k, stp) ==
    IF k > Len(next_states) \/ w.raised THEN w
    ELSE for_next_states(visit_next_state(w, nd, next_states[k], stp),
                         nd, next_states, k + 1, stp)

compute_and_queue_successors(w, nd, stp) ==
    LET sym_group       == w.groups[nd]
        canonical_state == sym_group[1]
        next_states     == get_next_states_raw(canonical_state, stp)
    IN  for_next_states(w, nd, next_states, 1, stp)

\* the globals before the BFS loop: the empty board is group 1, its Node is
\* the root and the only element of q
InitGlobals ==
    LET r == add_symmetry_group(<<>>, <<>>, empty_board_state, 1)
    IN  /\ states = r.states
        /\ groups = r.groups
        /\ nodes = (1 :> Node(1))
        /\ gid = 2
        /\ q = <<1>>
        /\ step = 0
        /\ todo = 0
        /\ output = <<>>
        /\ graph_size = 0
        /\ level = (1 :> 0)
        /\ expanded = <<>>

Init ==
    /\ InitGlobals
    /\ pc = "for"
    /\ call_st = <<>>
    /\ call_gid = <<>>
    /\ call_ret = <<>>

\* print(f"{step}, {len(q)}") and the evaluation of range(len(q))
PrintStep ==
    /\ pc = "for"
    /\ output' = Append(output, <<step, Len(q)>>)
    /\ todo' = Len(q)
    /\ pc' = "pop"
    /\ UNCHANGED <<states, groups, nodes, gid, q, step, graph_size, level,
                   expanded, call_st, call_gid, call_ret>>

\* compute_and_queue_successors(q.pop())
Expand ==
    /\ pc = "pop"
    /\ todo > 0
    /\ LET nd == pop_value(q)
           w0 == [states |-> states, groups |-> groups, nodes |-> nodes,
                  gid |-> gid, q |-> pop_rest(q), level |-> level,
                  raised |-> FALSE]
           w1 == compute_and_queue_successors(w0, nd, step)
       IN  /\ states' = w1.states
           /\ groups' = w1.groups
           /\ nodes' = w1.nodes
           /\ gid' = w1.gid
           /\ q' = w1.q
           /\ level' = w1.level
           /\ expanded' = Append(expanded, nd)
           /\ pc' = IF w1.raised THEN "raised" ELSE "pop"
    /\ todo' = todo - 1
    /\ UNCHANGED <<step, output, graph_size, call_st, call_gid, call_ret>>

\* the inner loop is over: next value of `for step in range(11)`, or leave
NextStep ==
    /\ pc = "pop"
    /\ todo = 0
    /\ IF step + 1 < NumSteps
       THEN step' = step + 1 /\ pc' = "for"
       ELSE step' = step /\ pc' = "report"
    /\ UNCHANGED <<states, groups, nodes, gid, q, todo, output, graph_size,
                   level, expanded, call_st, call_gid, call_ret>>

\* print("Graph size (game-state complexity):", len(nodes))
PrintGraphSize ==
    /\ pc = "report"
    /\ graph_size' = Cardinality(DOMAIN nodes)
    /\ pc' = "done"
    /\ UNCHANGED <<states, groups, nodes, gid, q, step, todo, output, level,
                   expanded, call_st, call_gid, call_ret>>

Next == PrintStep \/ Expand \/ NextStep \/ PrintGraphSize

Spec == Init /\ [][Next]_vars

----------------------------------------------------------------------------
(* direct calls of get_symmetries: once on any State, then once more on   *)
(* a member of the list the first call returned                           *)

script_vars == <<states, groups, nodes, gid, q, step, todo, output,
                 graph_size, level, expanded>>

SymInit ==
    /\ InitGlobals
    /\ pc = "call"
    /\ call_st \in {<<b1>> : b1 \in AllStates}
    /\ call_gid = <<>>
    /\ call_ret = <<>>

CallGetSymmetries ==
    /\ pc = "call"
    /\ call_ret' = <<get_symmetries(call_st[1])>>
    /\ pc' = "returned"
    /\ UNCHANGED <<script_vars, call_st, call_gid>>

CallGetSymmetriesOfMember ==
    /\ pc = "returned"
    /\ \E k \in DOMAIN call_ret[1] :
          /\ call_st' = Append(call_st, call_ret[1][k])
          /\ call_ret' = Append(call_ret, get_symmetries(call_ret[1][k]))
    /\ pc' = "returned2"
    /\ UNCHANGED <<script_vars, call_gid>>

SymNext == CallGetSymmetries \/ CallGetSymmetriesOfMember

SymSpec == SymInit /\ [][SymNext]_vars

----------------------------------------------------------------------------
(* direct calls of is_end: once on any State, then once on the board one  *)
(* of the 8 symmetry operations makes of it                               *)

EndInit ==
    /\ InitGlobals
    /\ pc = "call_is_end"
    /\ call_st \in {<<b1>> : b1 \in AllStates}
    /\ call_gid = <<>>
    /\ call_ret = <<>>

CallIsEnd ==
    /\ pc = "call_is_end"
    /\ call_ret' = <<is_end(call_st[1])>>
    /\ pc' = "is_end_returned"
    /\ UNCHANGED <<script_vars, call_st, call_gid>>

CallIsEndOfSymmetry ==
    /\ pc = "is_end_returned"
    /\ \E op \in 1..8 :
          LET st_op == apply_all_symmetry_operations(call_st[1])[op]
          IN  /\ call_st' = Append(call_st, st_op)
              /\ call_ret' = Append(call_ret, is_end(st_op))
    /\ pc' = "is_end_returned2"
    /\ UNCHANGED <<script_vars, call_gid>>

EndNext == CallIsEnd \/ CallIsEndOfSymmetry

EndSpec == EndInit /\ [][EndNext]_vars

----------------------------------------------------------------------------
(* direct calls of get_next_states_raw on any State and a step            *)

\* largest step passed to a call
MaxStep == 3

RawInit ==
    /\ InitGlobals
    /\ pc = "call_get_next_states_raw"
    /\ call_st \in {<<b1, k>> : b1 \in AllStates, k \in 0..MaxStep}
    /\ call_gid = <<>>
    /\ call_ret = <<>>

CallGetNextStatesRaw ==
    /\ pc = "call_get_next_states_raw"
    /\ call_ret' = <<get_next_states_raw(call_st[1], call_st[2])>>
    /\ pc' = "get_next_states_raw_returned"
    /\ UNCHANGED <<script_vars, call_st, call_gid>>

RawNext == CallGetNextStatesRaw

RawSpec == RawInit /\ [][RawNext]_vars

----------------------------------------------------------------------------
(* direct calls of add_symmetry_group on the registry the script starts   *)
(* with, without the `nxt_st in states` test of its one caller            *)

\* number of calls made in one behaviour
MaxCalls == 2

\* largest GroupId passed to a call
MaxGid == 3

\* the empty board and the nine boards with one X
RegBoards ==
    {empty_board_state}
    \cup {make_move(empty_board_state, row, col, 1) : row \in 1..3, col \in 1..3}

RegInit ==
    /\ InitGlobals
    /\ pc = "call"
    /\ call_st = <<>>
    /\ call_gid = <<>>
    /\ call_ret = <<>>

CallAddSymmetryGroup ==
    /\ pc = "call"
    /\ Len(call_st) < MaxCalls
    /\ \E brd \in RegBoards, g \in 1..MaxGid :
          LET r == add_symmetry_group(states, groups, brd, g)
          IN  /\ states' = r.states
              /\ groups' = r.groups
              /\ call_st' = Append(call_st, brd)
              /\ call_gid' = Append(call_gid, g)
              /\ call_ret' = Append(call_ret, r.raised)
              /\ pc' = IF r.raised THEN "raised" ELSE "call"
    /\ UNCHANGED <<nodes, gid, q, step, todo, output, graph_size, level,
                   expanded>>

RegNext == CallAddSymmetryGroup

RegSpec == RegInit /\ [][RegNext]_vars

----------------------------------------------------------------------------
(* direct calls of get_symmetries and is_end on values that are not a     *)
(* State: a cell outside {0, 1, 2}, or not 3 rows of 3 cells              *)

\* the unpacking `((a, b, c), (d, e, f), (g, h, i)) = st` raises ValueError
unpack_raises(brd) ==
    \/ Len(brd) # 3
    \/ \E r \in DOMAIN brd : Len(brd[r]) # 3

\* an index st[ix][0..2], ix in range(3), raises IndexError
index_raises(brd) ==
    \/ Len(brd) < 3
    \/ \E r \in 1..3 : Len(brd[r]) < 3

\* get_symmetries(st) for any value st: an exception or the returned list
get_symmetries_call(brd) ==
    IF unpack_raises(brd)
    THEN [raised |-> TRUE, value |-> "ValueError"]
    ELSE [raised |-> FALSE, value |-> get_symmetries(brd)]

\* is_end(st) for any value st: an exception or the returned bool
is_end_call(brd) ==
    IF index_raises(brd)
    THEN [raised |-> TRUE, value |-> "IndexError"]
    ELSE [raised |-> FALSE, value |-> is_end(brd)]

\* one cell of a board of RegBoards replaced by the symbol 3
BadSymbolBoards ==
    {make_move(b1, row, col, 3) : b1 \in RegBoards, row \in 1..3, col \in 1..3}

\* a board of RegBoards with a row or a cell dropped or added
BadShapeBoards ==
    UNION {{SubSeq(b1, 1, 2),
            Append(b1, <<0, 0, 0>>),
            [b1 EXCEPT ![1] = SubSeq(@, 1, 2)],
            [b1 EXCEPT ![3] = SubSeq(@, 1, 2)],
            [b1 EXCEPT ![2] = Append(@, 0)]} : b1 \in RegBoards}

MalformedBoards == BadSymbolBoards \cup BadShapeBoards

MalInit ==
    /\ InitGlobals
    /\ pc = "call_malformed"
    /\ call_st \in {<<b1>> : b1 \in MalformedBoards}
    /\ call_gid = <<>>
    /\ call_ret = <<>>

CallGetSymmetriesMalformed ==
    /\ pc = "call_malformed"
    /\ call_ret' = <<get_symmetries_call(call_st[1])>>
    /\ pc' = "malformed_get_symmetries_returned"
    /\ UNCHANGED <<script_vars, call_st, call_gid>>

CallIsEndMalformed ==
    /\ pc = "call_malformed"
    /\ call_ret' = <<is_end_call(call_st[1])>>
    /\ pc' = "malformed_is_end_returned"
    /\ UNCHANGED <<script_vars, call_st, call_gid>>

MalNext == CallGetSymmetriesMalformed \/ CallIsEndMalformed

MalSpec == MalInit /\ [][MalNext]_vars

----------------------------------------------------------------------------
(* properties *)

NoDuplicates(xs) == Cardinality(Range(xs)) = Len(xs)

\* the nodes left once every node without a successor among the remaining
\* ones has been removed, repeatedly: empty iff the relation has no cycle
RECURSIVE OnCycles(_)
OnCycles(S) ==
    LET sinks == {u \in S : Range(nodes[u].successors) \cap S = {}}
    IN  IF sinks = {} THEN S ELSE OnCycles(S \ sinks)

\* C1: when the exploration from the empty board has run to completion, the
\* number of nodes ever created (the printed graph size, the size of `nodes`
\* and of `groups`) is exactly 765.
C1_TotalNodes ==
    pc = "done" =>
        /\ graph_size = 765
        /\ Cardinality(DOMAIN nodes) = 765
        /\ Cardinality(DOMAIN groups) = 765

C1_Witness == pc = "done" /\ step = NumSteps - 1 /\ graph_size > 0

\* C2: in every state of the exploration `states` and `groups` agree:
\* states[m] = g iff m is a member of groups[g]; the members of groups[g] are
\* exactly the orbit of the board g was registered from (its element 0), so
\* after a registration every member of that orbit maps to g and no other
\* board does, and no board is a member of two groups.
C2_StatesGroupsAgree ==
    /\ \A r1 \in DOMAIN states :
          \A r2 \in DOMAIN states[r1] :
              \A r3 \in DOMAIN states[r1][r2] :
                  /\ states[r1][r2][r3] \in DOMAIN groups
                  /\ <<r1, r2, r3>> \in Range(groups[states[r1][r2][r3]])
    /\ \A g \in DOMAIN groups :
          /\ \A m \in Range(groups[g]) :
                dict_has(states, m) /\ dict_get(states, m) = g
          /\ groups[g] = get_symmetries(groups[g][1])

C2_Witness ==
    \E g \in DOMAIN groups :
        /\ g > 1
        /\ Len(groups[g]) = 8
        /\ \A m \in Range(get_symmetries(groups[g][1])) : dict_get(states, m) = g

\* C3: in every state no node's successor list holds the same group id
\* twice, however many raw successor boards of its canonical board resolve
\* to one group.
C3_NoDuplicateSuccessors ==
    \A g \in DOMAIN nodes : NoDuplicates(nodes[g].successors)

\* an expanded node u with two raw successor boards in one group v, where v
\* was made by an earlier expansion, and an expanded node with two raw
\* successor boards in a group made by its own expansion (the root)
C3_Witness ==
    /\ Len(expanded) >= 2
    /\ LET raw(u) == get_next_states_raw(groups[u][1], level[u])
           twice(u, v) == \E j, k \in DOMAIN raw(u) :
                             /\ j # k
                             /\ dict_get(states, raw(u)[j]) = v
                             /\ dict_get(states, raw(u)[k]) = v
       IN  /\ \E v \in Range(nodes[1].successors) : twice(1, v)
           /\ \E i \in 2..Len(expanded) :
                 \E v \in Range(nodes[expanded[i]].successors) :
                     /\ twice(expanded[i], v)
                     /\ \E h \in 1..(i - 1) : v \in Range(nodes[expanded[h]].successors)

\* C4: for every edge (u -> v) recorded so far, v entered the queue at a
\* level that is not lower than the level of u, u # v, and the successor
\* relation over all nodes has no cycle.
C4_EdgesForwardAcyclic ==
    /\ \A u \in DOMAIN nodes :
          \A v \in Range(nodes[u].successors) :
              /\ v \in DOMAIN nodes
              /\ level[v] >= level[u]
              /\ u # v
    /\ OnCycles(DOMAIN nodes) = {}

C4_Witness ==
    /\ pc = "done"
    /\ \E u \in DOMAIN nodes : \E v \in Range(nodes[u].successors) : level[v] = 9

\* C5 as stated: the frontier entering level 1 (the second line of the
\* report) has size 1.
C5_Level1FrontierIsOne == Len(output) >= 2 => output[2] = <<1, 1>>

\* C5 as amended: the frontier entering level 1 has size 3 (the nine first
\* moves fall into three groups: corner, edge, centre).
C5_Level1FrontierIsThree == Len(output) >= 2 => output[2] = <<1, 3>>

C5_Witness == Len(output) = 2 /\ output[2][1] = 1 /\ pc = "pop"

\* C6: the frontier entering level 2 (the third line of the report) has
\* size 12.
C6_Level2FrontierIsTwelve == Len(output) >= 3 => output[3] = <<2, 12>>

C6_Witness == Len(output) = 3 /\ output[3][1] = 2 /\ todo = Len(q)

\* C7: for every 3x3 board b over {0,1,2}, get_symmetries(b) has no
\* duplicates, has length 1, 2, 4 or 8, and has b as its element 0.
C7_OrbitShape ==
    pc = "returned" =>
        /\ NoDuplicates(call_ret[1])
        /\ Len(call_ret[1]) \in {1, 2, 4, 8}
        /\ call_ret[1][1] = call_st[1]

C7_Witness ==
    /\ pc = "returned"
    /\ Len(call_ret[1]) = 2
    /\ call_ret[1][1] = call_st[1]

\* C8: for every board b1 and every b2 in get_symmetries(b1),
\* get_symmetries(b2) holds the same set of boards as get_symmetries(b1).
C8_OrbitOfMember ==
    pc = "returned2" => Range(call_ret[2]) = Range(call_ret[1])

\* a member other than b1 itself, whose list is in another order
C8_Witness ==
    /\ pc = "returned2"
    /\ call_st[2] # call_st[1]
    /\ call_ret[2] # call_ret[1]
    /\ Len(call_ret[1]) = 8

\* some member of the orbit of brd is in `sts` under a group id other than g
Conflict(sts, brd, g) ==
    \E m \in Range(get_symmetries(brd)) : dict_has(sts, m) /\ dict_get(sts, m) # g

\* C9: a call of add_symmetry_group(b, g) made while some member of the
\* orbit of b is in `states` under another group id fails, and leaves
\* `states` and `groups` as they were.
C9_ConflictIsFatal ==
    [][(/\ pc = "call"
        /\ Len(call_st') = Len(call_st) + 1
        /\ Conflict(states, call_st'[Len(call_st')], call_gid'[Len(call_gid')]))
       => (pc' = "raised" /\ states' = states /\ groups' = groups)]_vars

\* what is left to run: the levels not yet begun, the position within the
\* level and the pops left in it, compared in this order
Measure ==
    CASE pc = "for"    -> <<NumSteps - step, 1, 0>>
      [] pc = "pop"    -> <<NumSteps - step, 0, todo>>
      [] pc = "report" -> <<0, 1, 0>>
      [] OTHER         -> <<0, 0, 0>>

LexLess(a, b) ==
    \/ a[1] < b[1]
    \/ a[1] = b[1] /\ a[2] < b[2]
    \/ a[1] = b[1] /\ a[2] = b[2] /\ a[3] < b[3]

\* the script has a next statement that can run
CanStep ==
    \/ pc = "for"
    \/ pc = "pop" /\ (todo = 0 \/ q # <<>>)
    \/ pc = "report"

\* C10: the exploration terminates (every step lowers a measure that cannot
\* go below zero, and until the end there is a next step that can run), no
\* node is queued once the level-9 frontier has been expanded, and when the
\* level loop has stopped the queue is empty and every node ever created has
\* been expanded.
C10_TerminatesWithEmptyFrontier ==
    /\ [][LexLess(Measure', Measure)]_vars
    /\ [](\A k \in 1..3 : Measure[k] >= 0)
    /\ [](pc # "done" => CanStep)
    /\ [](step >= 9 /\ pc = "pop" /\ todo = 0 => q = <<>>)
    /\ [](pc \in {"report", "done"} =>
             q = <<>> /\ Range(expanded) = DOMAIN nodes)

C10_Witness ==
    /\ pc = "done"
    /\ q = <<>>
    /\ Len(expanded) = Cardinality(DOMAIN nodes)

\* the board read as a number in base 3, rows top to bottom, cells left to
\* right: smaller means earlier in the lexicographic order of boards
BoardKey(brd) ==
    LET row(r) == 9 * brd[r][1] + 3 * brd[r][2] + brd[r][3]
    IN  729 * row(1) + 27 * row(2) + row(3)

\* C11: element 0 of every stored group is the raw board registration was
\* given: a raw successor of the node being expanded, the first in row-major
\* order that belongs to this class, of a class none of whose boards was in
\* `states` before; and the stored group of an existing class never changes.
C11_CanonicalIsFirstMet ==
    [][/\ \A g \in DOMAIN groups : g \in DOMAIN groups' /\ groups'[g] = groups[g]
       /\ \A g \in DOMAIN groups' \ DOMAIN groups :
             LET raw == get_next_states_raw(groups[pop_value(q)][1], step)
             IN  /\ \A m \in Range(groups'[g]) : ~dict_has(states, m)
                 /\ \E k \in DOMAIN raw :
                       /\ raw[k] = groups'[g][1]
                       /\ \A j \in 1..(k - 1) : raw[j] \notin Range(groups'[g])]_vars

\* a class made by an expansion whose representative is not the smallest
\* board of its group
C11_Witness ==
    \E g \in DOMAIN groups :
        /\ g > 1
        /\ g \in Range(nodes[1].successors)
        /\ \E m \in Range(groups[g]) : BoardKey(m) < BoardKey(groups[g][1])

\* C12: for every board b and each of the 8 symmetry operations op (the 4
\* rotations of b and the 4 rotations of its top-to-bottom mirror), is_end(b)
\* equals is_end(op(b)).
C12_IsEndInvariantUnderSymmetry ==
    pc = "is_end_returned2" => call_ret[2] = call_ret[1]

\* a finished board and an image of it that is another board
C12_Witness ==
    /\ pc = "is_end_returned2"
    /\ call_ret[1] = TRUE
    /\ call_ret[2] = TRUE
    /\ call_st[2] # call_st[1]

\* the (row, col) pairs of all cells
AllCells == (1..3) \X (1..3)

\* C13: get_next_states_raw(b, k) is empty when b is terminal; otherwise it
\* holds one board per empty cell of b, in row-major order of those cells,
\* each equal to b except that this one cell holds 1 when k is even and 2
\* when k is odd; b itself is never returned.
C13_RawSuccessors ==
    pc = "get_next_states_raw_returned" =>
        LET b       == call_st[1]
            k       == call_st[2]
            r       == call_ret[1]
            token   == IF k % 2 = 0 THEN 1 ELSE 2
            empties == {rc \in AllCells : b[rc[1]][rc[2]] = 0}
            diff(n) == {rc \in AllCells : r[n][rc[1]][rc[2]] # b[rc[1]][rc[2]]}
            at(n)   == CHOOSE rc \in AllCells : rc \in diff(n)
            pos(rc) == 3 * (rc[1] - 1) + rc[2]
        IN  IF is_end(b)
            THEN r = <<>>
            ELSE /\ Len(r) = Cardinality(empties)
                 /\ \A n \in DOMAIN r :
                       /\ r[n] # b
                       /\ Cardinality(diff(n)) = 1
                       /\ at(n) \in empties
                       /\ r[n][at(n)[1]][at(n)[2]] = token
                 /\ \A n, m \in DOMAIN r : n < m => pos(at(n)) < pos(at(m))

\* a board that is not finished, with several empty cells, at an odd step
C13_Witness ==
    /\ pc = "get_next_states_raw_returned"
    /\ ~is_end(call_st[1])
    /\ call_st[2] % 2 = 1
    /\ Len(call_ret[1]) >= 2
    /\ call_ret[1][1] # call_st[1]

\* C14: a call of get_symmetries or of is_end with a malformed board (wrong
\* dimensions, or a cell outside {0, 1, 2}) fails; it returns neither a list
\* of boards nor a bool.
C14_MalformedBoardFails ==
    pc \in {"malformed_get_symmetries_returned", "malformed_is_end_returned"} =>
        call_ret[1].raised

\* C15: the nodes are popped in the order of their discovery (the order of
\* their group ids), each once; a node popped during step k was in q when
\* step k began (its level is not above k, so a node made during step k is
\* not popped in step k); within step k the pops still to come are exactly
\* the nodes of level k not yet popped; at the end every node has been popped.
C15_FrontierFixedPerStep ==
    /\ \A i \in DOMAIN expanded : expanded[i] = i /\ level[i] <= step
    /\ pc = "pop" =>
          /\ Cardinality({g \in DOMAIN nodes : level[g] = step /\ g > Len(expanded)}) = todo
          /\ Len(q) >= todo
          /\ \A j \in 1..todo :
                q[Len(q) - j + 1] = Len(expanded) + j /\ level[Len(expanded) + j] = step
          /\ \A g \in DOMAIN nodes : g > Len(expanded) => level[g] >= step
    /\ pc = "done" => Len(expanded) = Cardinality(DOMAIN nodes)

\* in the middle of a level: some of its nodes popped, some still to pop, and
\* nodes of the next level already made
C15_Witness ==
    /\ pc = "pop"
    /\ step = 2
    /\ todo > 0
    /\ \E i \in DOMAIN expanded : level[i] = step
    /\ \E g \in DOMAIN nodes : level[g] = step + 1

\* C16: the keys of `groups` and of `nodes` are the same set, the ids
\* 1 .. gid - 1 issued so far, each Node under the id it holds; the assert of
\* add_symmetry_group never fails; and a step issues the ids from the old
\* value of gid up to the new one, so ids only grow and none is issued twice.
C16_IdsIssuedOnce ==
    /\ [](/\ DOMAIN groups = 1..(gid - 1)
          /\ DOMAIN nodes = DOMAIN groups
          /\ \A g \in DOMAIN nodes : nodes[g].val = g
          /\ pc # "raised")
    /\ [][/\ gid' >= gid
          /\ DOMAIN groups' \ DOMAIN groups = gid..(gid' - 1)
          /\ DOMAIN nodes' \ DOMAIN nodes = gid..(gid' - 1)]_vars

\* several registrations made by one expansion
C16_Witness ==
    /\ pc = "pop"
    /\ gid >= 5
    /\ Len(expanded) = 1
    /\ DOMAIN groups = 1..(gid - 1)

\* C17: the report holds one (moveIndex, frontierSize) pair per level, for
\* the move indexes 0, 1, 2, ... in order, none above 9 and none for a level
\* whose frontier is empty.
C17_ReportStopsAtLevelNine ==
    \A i \in DOMAIN output :
        /\ output[i][1] = i - 1
        /\ output[i][1] <= 9
        /\ output[i][2] > 0

\* C18: the boards in `states` are a union of complete orbits (with a board,
\* its 8 images are keys too); so when a raw successor of the node being
\* expanded is not in `states`, no board of its orbit is either; and a
\* registration never overwrites: the boards of a new group were in `states`
\* neither before the step nor in another group made by the same step, and
\* every board of an existing group keeps its id.
C18_RegisteredBoardsAreWholeOrbits ==
    /\ [](\A r1 \in DOMAIN states :
             \A r2 \in DOMAIN states[r1] :
                 \A r3 \in DOMAIN states[r1][r2] :
                     \A m \in Range(apply_all_symmetry_operations(<<r1, r2, r3>>)) :
                         dict_has(states, m))
    /\ [][/\ pc = "pop" /\ todo > 0 =>
                LET raw == get_next_states_raw(groups[pop_value(q)][1], step)
                IN  \A k \in DOMAIN raw :
                        ~dict_has(states, raw[k]) =>
                            \A m \in Range(get_symmetries(raw[k])) : ~dict_has(states, m)
          /\ \A g \in DOMAIN groups' \ DOMAIN groups :
                \A m \in Range(groups'[g]) :
                    /\ ~dict_has(states, m)
                    /\ \A h \in DOMAIN groups' \ DOMAIN groups :
                          h # g => m \notin Range(groups'[h])
          /\ \A g \in DOMAIN groups :
                \A m \in Range(groups[g]) : dict_get(states', m) = g]_vars

\* an expansion that met a board absent from `states` whose orbit has 8 boards
C18_Witness ==
    /\ pc = "pop"
    /\ Len(expanded) = 2
    /\ \E g \in Range(nodes[2].successors) :
          /\ level[g] = 2
          /\ Len(groups[g]) = 8
          /\ \A m \in Range(groups[g]) : dict_get(states, m) = g

\* number of cells of brd that hold val
Count(brd, val) == Cardinality({rc \in AllCells : brd[rc[1]][rc[2]] = val})

\* C19: the canonical board of a node of level k has k non-empty cells,
\* ceil(k/2) of them 1 and floor(k/2) of them 2; when the step for move index
\* k starts, every node in q is of level k, so `step % 2 + 1` is the token of
\* the player to move on the board being expanded; every edge goes from a
\* class of n tokens to a class of n + 1 tokens.
C19_FrontierTokenCounts ==
    /\ \A g \in DOMAIN nodes :
          /\ Count(groups[g][1], 1) = (level[g] + 1) \div 2
          /\ Count(groups[g][1], 2) = level[g] \div 2
          /\ Count(groups[g][1], 0) = 9 - level[g]
          /\ \A v \in Range(nodes[g].successors) : level[v] = level[g] + 1
    /\ pc = "pop" /\ todo = Len(q) => \A i \in DOMAIN q : level[q[i]] = step
    /\ pc = "pop" /\ todo > 0 =>
          LET b == groups[pop_value(q)][1]
          IN  /\ level[pop_value(q)] = step
              /\ new_val(step) = IF Count(b, 1) = Count(b, 2) THEN 1 ELSE 2

\* an odd level about to be expanded: O is to move
C19_Witness ==
    /\ pc = "pop"
    /\ step = 3
    /\ todo = Len(q)
    /\ todo > 1
    /\ Count(groups[pop_value(q)][1], 1) = 2
    /\ Count(groups[pop_value(q)][1], 2) = 1

\* C20: between two levels and at the end, for every node g already expanded
\* and every board m of its group (not only element 0): if m is not finished,
\* each board made by putting the mover's token into an empty cell of m is in
\* `states`, and its group is in the successor list of g.
C20_ExpandingCanonicalLosesNothing ==
    pc \in {"for", "report", "done"} =>
        \A g \in 1..Len(expanded) :
            \A m \in Range(groups[g]) :
                ~is_end(m) =>
                    LET mover == IF Count(m, 1) = Count(m, 2) THEN 1 ELSE 2
                    IN  \A rc \in AllCells :
                            m[rc[1]][rc[2]] = 0 =>
                                LET nxt == make_move(m, rc[1], rc[2], mover)
                                IN  /\ dict_has(states, nxt)
                                    /\ dict_get(states, nxt) \in Range(nodes[g].successors)

\* the exploration has finished; a group of 8 boards has successors
C20_Witness ==
    /\ pc = "done"
    /\ Len(expanded) = Cardinality(DOMAIN groups)
    /\ \E g \in DOMAIN groups :
          /\ Len(groups[g]) = 8
          /\ nodes[g].successors # <<>>
          /\ ~is_end(groups[g][8])

====
